---- MODULE Spec2Model ----
(***************************************************************************)
(* Model of seq2seq/models.py: the three builders SimpleSeq2Seq, Seq2Seq   *)
(* and AttentionSeq2Seq.  One behaviour is one call of one builder: the    *)
(* arguments are drawn in Init, every action is a block of consecutive     *)
(* statements of the builder, and the variables are the builder's locals.  *)
(***************************************************************************)
EXTENDS Integers, Sequences, FiniteSets, TLC

VARIABLES
  builder,      \* which of the three functions is being called
  args,         \* the arguments of the call, as the caller gave them
  pc,           \* position in the function body
  depth,        \* local `depth` (rebound by the normalisation)
  hidden_dim,   \* local `hidden_dim` (rebound by the default)
  kwargs,       \* the **kwargs mapping (keys are deleted from it)
  shape,        \* local `shape`; Unbound until an option form assigns it
  unroll,       \* local `unroll`
  stateful,     \* local `stateful`
  encoder,      \* local `encoder`: the container and its layer stack
  decoder,      \* local `decoder`
  encoded,      \* tensor the encoder side hands on (`encoded_seq`, `encoded`)
  states,       \* Seq2Seq: local `states`
  input,        \* Seq2Seq, AttentionSeq2Seq: local `input`
  inputs,       \* Seq2Seq, AttentionSeq2Seq: local `inputs`
  decoder_call, \* the argument the decoder container is called with
  model,        \* the returned model
  raised        \* the exception that ended the call, or NoError

vars == <<builder, args, pc, depth, hidden_dim, kwargs, shape, unroll, stateful,
          encoder, decoder, encoded, states, input, inputs, decoder_call, model, raised>>

----------------------------------------------------------------------------
(* Bounds of the model *)

MaxDim == 2
MaxDepth == 3

Dims == 1..MaxDim
Depths == 1..MaxDepth

----------------------------------------------------------------------------
(* Python values *)

\* None where a dimension or a number is expected
None == 0
\* None where a tensor is expected; a tensor is the path of layers that made it
NoneTensor == <<>>
\* a local that no statement has assigned yet
Unbound == <<>>
NoError == "none"
\* a local that holds no object yet
Absent == [built |-> FALSE]
\* an empty keyword mapping
NoKwargs == [k \in {} |-> TRUE]

ShapeKeys == {"batch_input_shape", "input_shape", "input_dim", "input_length"}
Keys == ShapeKeys \cup {"unroll", "stateful", "activation"}

\* del kwargs[k]
Del(kw, k) == [x \in (DOMAIN kw) \ {k} |-> kw[x]]

\* a keyword mapping from one option per key: <<>> leaves the key out
MkKwargs(opts) == [k \in {x \in Keys : opts[x] # <<>>} |-> opts[k][1]]

Opt(S) == {<<>>} \cup {<<v>> : v \in S}

----------------------------------------------------------------------------
(* Argument normalisation: the same statements open all three builders     *)
(* (lines 37-63, 132-158 and 215-241).                                     *)

\* a depth argument: an int, or a two-element sequence
IntDepth(n) == [type |-> "int", val |-> <<n>>]
PairDepth(e, d) == [type |-> "tuple", val |-> <<e, d>>]

\* mutant: a scalar depth is applied to the encoder side only
NormalizeDepth_EncoderOnly(d) ==
  IF d.type = "int" THEN <<d.val[1], 1>> ELSE d.val

\* if type(depth) == int: depth = [depth, depth]
NormalizeDepth(d) ==
  IF d.type = "int" THEN <<d.val[1], d.val[1]>> ELSE d.val

\* mutant: input_length and input_dim change places in the resolved shape
ResolveShape_LengthDimSwapped(kw) ==
  IF "batch_input_shape" \in DOMAIN kw THEN kw["batch_input_shape"]
  ELSE IF "input_shape" \in DOMAIN kw THEN <<None>> \o kw["input_shape"]
  ELSE IF "input_dim" \in DOMAIN kw THEN
         IF "input_length" \in DOMAIN kw
         THEN <<None, kw["input_dim"], kw["input_length"]>>
         ELSE <<None, kw["input_dim"], None>>
  ELSE Unbound

\* mutant: input_shape is looked for before batch_input_shape
ResolveShape_InputShapeFirst(kw) ==
  IF "input_shape" \in DOMAIN kw THEN <<None>> \o kw["input_shape"]
  ELSE IF "batch_input_shape" \in DOMAIN kw THEN kw["batch_input_shape"]
  ELSE IF "input_dim" \in DOMAIN kw THEN
         IF "input_length" \in DOMAIN kw
         THEN <<None, kw["input_length"], kw["input_dim"]>>
         ELSE <<None, None, kw["input_dim"]>>
  ELSE Unbound

\* the value the if/elif chain over the shape options assigns to `shape`
ResolveShape(kw) ==
  IF "batch_input_shape" \in DOMAIN kw THEN kw["batch_input_shape"]
  ELSE IF "input_shape" \in DOMAIN kw THEN <<None>> \o kw["input_shape"]
  ELSE IF "input_dim" \in DOMAIN kw THEN
         IF "input_length" \in DOMAIN kw
         THEN <<None, kw["input_length"], kw["input_dim"]>>
         ELSE <<None, None, kw["input_dim"]>>
  ELSE Unbound

\* mutant: input_length is left in kwargs
ConsumeShapeKeys_KeepsLength(kw) ==
  IF "batch_input_shape" \in DOMAIN kw THEN Del(kw, "batch_input_shape")
  ELSE IF "input_shape" \in DOMAIN kw THEN Del(kw, "input_shape")
  ELSE IF "input_dim" \in DOMAIN kw THEN Del(kw, "input_dim")
  ELSE kw

\* the keys the same chain deletes from kwargs
ConsumeShapeKeys(kw) ==
  IF "batch_input_shape" \in DOMAIN kw THEN Del(kw, "batch_input_shape")
  ELSE IF "input_shape" \in DOMAIN kw THEN Del(kw, "input_shape")
  ELSE IF "input_dim" \in DOMAIN kw THEN
         IF "input_length" \in DOMAIN kw
         THEN Del(Del(kw, "input_length"), "input_dim")
         ELSE Del(kw, "input_dim")
  ELSE kw

\* if k in kwargs: v = kwargs[k] else: v = False
FlagValue(kw, k) == IF k \in DOMAIN kw THEN kw[k] ELSE FALSE

\* if not hidden_dim: hidden_dim = output_dim
DefaultHiddenDim(h, output_dim) == IF h = None THEN output_dim ELSE h

Arguments ==
  /\ pc = "args"
  /\ depth' = NormalizeDepth(depth)
  /\ shape' = ResolveShape(kwargs)
  /\ unroll' = FlagValue(kwargs, "unroll")
  /\ stateful' = FlagValue(kwargs, "stateful")
  /\ kwargs' = Del(Del(ConsumeShapeKeys(kwargs), "unroll"), "stateful")
  /\ hidden_dim' = DefaultHiddenDim(hidden_dim, args.output_dim)
  /\ pc' = "encoder"
  /\ UNCHANGED <<builder, args, encoder, decoder, encoded, states, input, inputs,
                 decoder_call, model, raised>>

SimpleSeq2Seq_args == builder = "SimpleSeq2Seq" /\ Arguments
Seq2Seq_args == builder = "Seq2Seq" /\ Arguments
AttentionSeq2Seq_args == builder = "AttentionSeq2Seq" /\ Arguments

\* an exception leaves the function: nothing more is assigned or returned
Raise(exc) ==
  /\ raised' = exc
  /\ pc' = "raised"
  /\ UNCHANGED <<builder, args, depth, hidden_dim, kwargs, shape, unroll, stateful,
                 encoder, decoder, encoded, states, input, inputs, decoder_call, model>>

----------------------------------------------------------------------------
(* Layers, containers and tensors of the framework, as the values the      *)
(* builders construct them with.                                           *)

NoShape == <<>>

LSTMCell(units, batch_input_shape, kw) ==
  [kind |-> "LSTMCell", output_dim |-> units, hidden_dim |-> None, rate |-> None,
   batch_input_shape |-> batch_input_shape, kwargs |-> kw]

LSTMDecoderCell(output_dim, hid, batch_input_shape, kw) ==
  [kind |-> "LSTMDecoderCell", output_dim |-> output_dim, hidden_dim |-> hid,
   rate |-> None, batch_input_shape |-> batch_input_shape, kwargs |-> kw]

AttentionDecoderCell(output_dim, hid) ==
  [kind |-> "AttentionDecoderCell", output_dim |-> output_dim, hidden_dim |-> hid,
   rate |-> None, batch_input_shape |-> NoShape, kwargs |-> NoKwargs]

Dropout(rate, batch_input_shape) ==
  [kind |-> "Dropout", output_dim |-> None, hidden_dim |-> None, rate |-> rate,
   batch_input_shape |-> batch_input_shape, kwargs |-> NoKwargs]

RecurrentContainer(cfg, layers) ==
  [built |-> TRUE, kind |-> "RecurrentContainer", cfg |-> cfg, layers |-> layers]

\* `for _ in range(n)`: the block of layers the loop body adds, n times
RECURSIVE Repeat(_, _)
Repeat(block, n) == IF n <= 0 THEN <<>> ELSE block \o Repeat(block, n - 1)

\* Input(batch_shape=s)
Input(s) == [path |-> <<"Input">>, batch_shape |-> s]
\* layer(t): the tensor a layer makes of tensor t
Apply(layer, t) == [path |-> Append(t.path, layer), batch_shape |-> t.batch_shape]
NoneT == [path |-> NoneTensor, batch_shape |-> NoShape]

----------------------------------------------------------------------------
(* SimpleSeq2Seq, lines 64-78 *)

\* mutant: the loop runs over range(depth[0]) instead of range(1, depth[0])
SimpleEncoderLayers_OneTooMany(hid, shp, n, rate, kw) ==
  <<LSTMCell(hid, <<shp[1], shp[3]>>, kw)>>
    \o Repeat(<<Dropout(rate, NoShape), LSTMCell(hid, NoShape, kw)>>, n)

SimpleEncoderLayers(hid, shp, n, rate, kw) ==
  <<LSTMCell(hid, <<shp[1], shp[3]>>, kw)>>
    \o Repeat(<<Dropout(rate, NoShape), LSTMCell(hid, NoShape, kw)>>, n - 1)

\* mutant: the decoder is stacked like the encoder, without the leading Dropout
SimpleDecoderLayers_NoLeadingDropout(hid, shp, n, rate, kw) ==
  <<LSTMCell(hid, <<shp[1], hid>>, kw)>>
    \o Repeat(<<Dropout(rate, NoShape), LSTMCell(hid, NoShape, kw)>>, n - 1)

SimpleDecoderLayers(hid, shp, n, rate, kw) ==
  <<Dropout(rate, <<shp[1], hid>>), LSTMCell(hid, NoShape, kw)>>
    \o Repeat(<<Dropout(rate, NoShape), LSTMCell(hid, NoShape, kw)>>, n - 1)

SimpleSeq2Seq_encoder ==
  /\ builder = "SimpleSeq2Seq"
  /\ pc = "encoder"
  /\ IF shape = Unbound
     THEN Raise("UnboundLocalError")
     ELSE /\ encoder' = RecurrentContainer(
                 [unroll |-> unroll, stateful |-> stateful, input_length |-> shape[2]],
                 SimpleEncoderLayers(hidden_dim, shape, depth[1], args.dropout, kwargs))
          /\ pc' = "decoder"
          /\ UNCHANGED <<builder, args, depth, hidden_dim, kwargs, shape, unroll,
                         stateful, decoder, encoded, states, input, inputs,
                         decoder_call, model, raised>>

SimpleSeq2Seq_decoder ==
  /\ builder = "SimpleSeq2Seq"
  /\ pc = "decoder"
  /\ decoder' = RecurrentContainer(
         [unroll |-> unroll, stateful |-> stateful, decode |-> TRUE,
          output_length |-> args.output_length, input_length |-> shape[2]],
         SimpleDecoderLayers(hidden_dim, shape, depth[2], args.dropout, kwargs))
  /\ pc' = "model"
  /\ UNCHANGED <<builder, args, depth, hidden_dim, kwargs, shape, unroll, stateful,
                 encoder, encoded, states, input, inputs, decoder_call, model, raised>>

SimpleSeq2Seq_model ==
  /\ builder = "SimpleSeq2Seq"
  /\ pc = "model"
  /\ model' = [built |-> TRUE, kind |-> "Sequential", layers |-> <<encoder, decoder>>]
  /\ pc' = "done"
  /\ UNCHANGED <<builder, args, depth, hidden_dim, kwargs, shape, unroll, stateful,
                 encoder, decoder, encoded, states, input, inputs, decoder_call, raised>>

----------------------------------------------------------------------------
(* Seq2Seq, lines 159-186 *)

Seq2SeqEncoderLayers(hid, shp, n, rate, kw) ==
  Repeat(<<LSTMCell(hid, <<shp[1], hid>>, kw), Dropout(rate, NoShape)>>, n)

Seq2SeqDecoderLayers(output_dim, hid, shp, n, rate, kw) ==
  Repeat(<<Dropout(rate, <<shp[1], output_dim>>),
           LSTMDecoderCell(output_dim, hid, <<shp[1], output_dim>>, kw)>>, n)

Seq2Seq_encoder ==
  /\ builder = "Seq2Seq"
  /\ pc = "encoder"
  /\ IF shape = Unbound
     THEN Raise("UnboundLocalError")
     ELSE /\ encoder' = RecurrentContainer(
                 [readout |-> "True", state_sync |-> args.inner_broadcast_state,
                  input_length |-> shape[2], unroll |-> unroll, stateful |-> stateful,
                  return_states |-> args.broadcast_state],
                 Seq2SeqEncoderLayers(hidden_dim, shape, depth[1], args.dropout, kwargs))
          /\ pc' = "decoder"
          /\ UNCHANGED <<builder, args, depth, hidden_dim, kwargs, shape, unroll,
                         stateful, decoder, encoded, states, input, inputs,
                         decoder_call, model, raised>>

Seq2Seq_decoder ==
  /\ builder = "Seq2Seq"
  /\ pc = "decoder"
  /\ decoder' = RecurrentContainer(
         [readout |-> IF args.peek THEN "add" ELSE "readout_only",
          state_sync |-> args.inner_broadcast_state,
          output_length |-> args.output_length, unroll |-> unroll,
          stateful |-> stateful, decode |-> TRUE, input_length |-> shape[2]],
         Seq2SeqDecoderLayers(args.output_dim, hidden_dim, shape, depth[2],
                              args.dropout, kwargs))
  /\ pc' = "encode"
  /\ UNCHANGED <<builder, args, depth, hidden_dim, kwargs, shape, unroll, stateful,
                 encoder, encoded, states, input, inputs, decoder_call, model, raised>>

\* encoder(x): the container's output, followed by its final states (the h and
\* c of the LSTM stack) when it was built with return_states
EncoderCall(enc, x) ==
  IF enc.cfg.return_states
  THEN <<Apply("encoder", x), Apply("encoder.state_h", x), Apply("encoder.state_c", x)>>
  ELSE <<Apply("encoder", x)>>

\* mutant: the slice is encoded_seq[:2] instead of encoded_seq[-2:]
Seq2SeqStates_FirstTwo(broadcast_state, encoded_seq) ==
  IF broadcast_state THEN SubSeq(encoded_seq, 1, 2) ELSE <<NoneT, NoneT>>

\* if broadcast_state: states = encoded_seq[-2:] else: states = [None] * 2
Seq2SeqStates(broadcast_state, encoded_seq) ==
  IF broadcast_state
  THEN SubSeq(encoded_seq, Len(encoded_seq) - 1, Len(encoded_seq))
  ELSE <<NoneT, NoneT>>

Seq2Seq_encode ==
  /\ builder = "Seq2Seq"
  /\ pc = "encode"
  /\ LET inp == Input(shape)
         encoded_seq == EncoderCall(encoder, Apply("dense1", inp))
     IN /\ input' = inp
        /\ states' = Seq2SeqStates(args.broadcast_state, encoded_seq)
        /\ encoded' = Apply("dense2", encoded_seq[1])
  /\ pc' = "decode"
  /\ UNCHANGED <<builder, args, depth, hidden_dim, kwargs, shape, unroll, stateful,
                 encoder, decoder, inputs, decoder_call, model, raised>>

\* inputs = [input]; if teacher_force: inputs += [truth_tensor]
Seq2SeqInputs(inp, teacher_force, shp, output_length, output_dim) ==
  IF teacher_force
  THEN <<inp, Input(<<shp[1], output_length, output_dim>>)>>
  ELSE <<inp>>

\* inputs[1] if broadcast_state else None
GroundTruth(ins, broadcast_state) == IF broadcast_state THEN ins[2] ELSE NoneT

Seq2Seq_decode ==
  /\ builder = "Seq2Seq"
  /\ pc = "decode"
  /\ LET ins == Seq2SeqInputs(input, args.teacher_force, shape, args.output_length,
                              args.output_dim)
     IN \* inputs[1] is read when broadcast_state holds, and inputs may have
        \* one element only
        IF args.broadcast_state /\ Len(ins) < 2
        THEN /\ inputs' = ins
             /\ raised' = "IndexError"
             /\ pc' = "raised"
             /\ UNCHANGED <<builder, args, depth, hidden_dim, kwargs, shape, unroll,
                            stateful, encoder, decoder, encoded, states, input,
                            decoder_call, model>>
        ELSE /\ inputs' = ins
             /\ decoder_call' = [called |-> TRUE, input |-> encoded,
                                 ground_truth |-> GroundTruth(ins, args.broadcast_state),
                                 initial_readout |-> encoded, states |-> states]
             /\ model' = [built |-> TRUE, kind |-> "Model", inputs |-> ins,
                          outputs |-> Apply("decoder", encoded),
                          encoder |-> encoder, decoder |-> decoder]
             /\ pc' = "done"
             /\ UNCHANGED <<builder, args, depth, hidden_dim, kwargs, shape, unroll,
                            stateful, encoder, decoder, encoded, states, input, raised>>

----------------------------------------------------------------------------
(* AttentionSeq2Seq, lines 242-272 *)

AttentionEncoderLayers(hid, shp, n, rate, kw) ==
  <<LSTMCell(hid, <<shp[1], shp[3]>>, kw)>>
    \o Repeat(<<Dropout(rate, NoShape), LSTMCell(hid, NoShape, kw)>>, n - 1)

\* mutant: the attention cell is built with output_dim whatever the depth
AttentionDecoderLayers_AttentionOutputDim(output_dim, hid, shp, n, rate) ==
  <<Dropout(rate, <<shp[1], shp[2], hid>>)>>
    \o IF n = 1
       THEN <<AttentionDecoderCell(output_dim, hid)>>
       ELSE <<AttentionDecoderCell(output_dim, hid)>>
              \o Repeat(<<Dropout(rate, NoShape),
                          LSTMDecoderCell(hid, hid, NoShape, NoKwargs)>>, n - 2)
              \o <<Dropout(rate, NoShape),
                   LSTMDecoderCell(output_dim, hid, NoShape, NoKwargs)>>

AttentionDecoderLayers(output_dim, hid, shp, n, rate) ==
  <<Dropout(rate, <<shp[1], shp[2], hid>>)>>
    \o IF n = 1
       THEN <<AttentionDecoderCell(output_dim, hid)>>
       ELSE <<AttentionDecoderCell(hid, hid)>>
              \o Repeat(<<Dropout(rate, NoShape),
                          LSTMDecoderCell(hid, hid, NoShape, NoKwargs)>>, n - 2)
              \o <<Dropout(rate, NoShape),
                   LSTMDecoderCell(output_dim, hid, NoShape, NoKwargs)>>

\* Bidirectional(encoder, merge_mode='sum')
Bidirectional(layer, merge_mode) ==
  [built |-> TRUE, kind |-> "Bidirectional", merge_mode |-> merge_mode,
   layer |-> layer]

AttentionSeq2Seq_encoder ==
  /\ builder = "AttentionSeq2Seq"
  /\ pc = "encoder"
  /\ IF shape = Unbound
     THEN Raise("UnboundLocalError")
     ELSE /\ encoder' = RecurrentContainer(
                 [unroll |-> unroll, stateful |-> stateful, return_sequences |-> TRUE,
                  input_length |-> shape[2]],
                 AttentionEncoderLayers(hidden_dim, shape, depth[1], args.dropout,
                                        kwargs))
          /\ pc' = "encode"
          /\ UNCHANGED <<builder, args, depth, hidden_dim, kwargs, shape, unroll,
                         stateful, decoder, encoded, states, input, inputs,
                         decoder_call, model, raised>>

AttentionSeq2Seq_encode ==
  /\ builder = "AttentionSeq2Seq"
  /\ pc = "encode"
  /\ input' = Input(shape)
  /\ encoder' = IF args.bidirectional THEN Bidirectional(encoder, "sum") ELSE encoder
  /\ encoded' = Apply("encoder", Input(shape))
  /\ pc' = "decoder"
  /\ UNCHANGED <<builder, args, depth, hidden_dim, kwargs, shape, unroll, stateful,
                 decoder, states, inputs, decoder_call, model, raised>>

AttentionSeq2Seq_decoder ==
  /\ builder = "AttentionSeq2Seq"
  /\ pc = "decoder"
  /\ decoder' = RecurrentContainer(
         [decode |-> TRUE, output_length |-> args.output_length, unroll |-> unroll,
          stateful |-> stateful, input_length |-> shape[2]],
         AttentionDecoderLayers(args.output_dim, hidden_dim, shape, depth[2],
                                args.dropout))
  /\ pc' = "decode"
  /\ UNCHANGED <<builder, args, depth, hidden_dim, kwargs, shape, unroll, stateful,
                 encoder, encoded, states, input, inputs, decoder_call, model, raised>>

AttentionSeq2Seq_decode ==
  /\ builder = "AttentionSeq2Seq"
  /\ pc = "decode"
  /\ inputs' = <<input>>
  /\ decoder_call' = [called |-> TRUE, input |-> encoded, ground_truth |-> NoneT,
                      initial_readout |-> NoneT, states |-> <<>>]
  /\ model' = [built |-> TRUE, kind |-> "Model", inputs |-> <<input>>,
               outputs |-> Apply("decoder", encoded)]
  /\ pc' = "done"
  /\ UNCHANGED <<builder, args, depth, hidden_dim, kwargs, shape, unroll, stateful,
                 encoder, decoder, encoded, states, input, raised>>

----------------------------------------------------------------------------
(* The calls the model explores *)

Builders == {"SimpleSeq2Seq", "Seq2Seq", "AttentionSeq2Seq"}

DepthArgs == {IntDepth(n) : n \in Depths}
               \cup {PairDepth(e, d) : e \in Depths, d \in Depths}

BatchShapes == {<<b, t, f>> : b \in {None, 1}, t \in Dims, f \in Dims}
InputShapes == {<<t, f>> : t \in Dims, f \in Dims}

\* every combination of the shape options, each with every value
ShapeOptionKwargs ==
  {MkKwargs([batch_input_shape |-> a, input_shape |-> b, input_dim |-> c,
             input_length |-> d, unroll |-> u, stateful |-> s, activation |-> x]) :
     a \in Opt(BatchShapes), b \in Opt(InputShapes), c \in Opt(Dims),
     d \in Opt(Dims), u \in Opt({TRUE}), s \in Opt({TRUE}), x \in {<<"tanh">>}}

\* no shape option, or one form of it, with the smallest values
PlainKwargs ==
  {MkKwargs([batch_input_shape |-> a, input_shape |-> <<>>, input_dim |-> c,
             input_length |-> <<>>, unroll |-> <<>>, stateful |-> <<>>,
             activation |-> <<>>]) :
     a \in Opt({<<1, 1, 1>>}), c \in Opt({1})}

\* the flags a builder takes; the others keep their defaults
FlagsOf(b, bs, ibs, tf, pk, bi) ==
  CASE b = "Seq2Seq" -> bi
    [] b = "AttentionSeq2Seq" -> bs /\ ibs /\ ~tf /\ ~pk
    [] OTHER -> bs /\ ibs /\ ~tf /\ ~pk /\ bi

Init ==
  /\ builder \in Builders
  /\ \E od \in Dims, h \in {None} \cup Dims, dp \in DepthArgs,
        kw \in ShapeOptionKwargs \cup PlainKwargs,
        bs \in BOOLEAN, ibs \in BOOLEAN, tf \in BOOLEAN, pk \in BOOLEAN,
        bi \in BOOLEAN :
       /\ FlagsOf(builder, bs, ibs, tf, pk, bi)
       \* a call varies its options or the rest of its arguments; Seq2Seq is
       \* then called with teacher_force, the others with their defaults
       /\ kw \notin PlainKwargs =>
            /\ od = MaxDim /\ h = None /\ dp = IntDepth(2)
            /\ bs /\ ibs /\ ~pk /\ bi /\ (tf <=> builder = "Seq2Seq")
       /\ args = [output_dim |-> od, output_length |-> MaxDim, hidden_dim |-> h,
                  depth |-> dp, dropout |-> 0, kwargs |-> kw,
                  broadcast_state |-> bs, inner_broadcast_state |-> ibs,
                  teacher_force |-> tf, peek |-> pk, bidirectional |-> bi]
  /\ pc = "args"
  /\ depth = args.depth
  /\ hidden_dim = args.hidden_dim
  /\ kwargs = args.kwargs
  /\ shape = Unbound
  /\ unroll = FALSE
  /\ stateful = FALSE
  /\ encoder = Absent
  /\ decoder = Absent
  /\ encoded = NoneT
  /\ states = <<>>
  /\ input = NoneT
  /\ inputs = <<>>
  /\ decoder_call = [called |-> FALSE]
  /\ model = Absent
  /\ raised = NoError

Next ==
  \/ SimpleSeq2Seq_args
  \/ SimpleSeq2Seq_encoder
  \/ SimpleSeq2Seq_decoder
  \/ SimpleSeq2Seq_model
  \/ Seq2Seq_args
  \/ Seq2Seq_encoder
  \/ Seq2Seq_decoder
  \/ Seq2Seq_encode
  \/ Seq2Seq_decode
  \/ AttentionSeq2Seq_args
  \/ AttentionSeq2Seq_encoder
  \/ AttentionSeq2Seq_encode
  \/ AttentionSeq2Seq_decoder
  \/ AttentionSeq2Seq_decode

Spec == Init /\ [][Next]_vars

----------------------------------------------------------------------------
(* Vocabulary of the properties *)

CellKinds == {"LSTMCell", "LSTMDecoderCell", "AttentionDecoderCell"}

\* the layer stack of a container, also when Bidirectional wraps it
Layers(c) == IF c.kind = "Bidirectional" THEN c.layer.layers ELSE c.layers

Positions(layers, kinds) == {i \in 1..Len(layers) : layers[i].kind \in kinds}

CountKind(layers, kinds) == Cardinality(Positions(layers, kinds))

\* the shape option keys the caller gave
GivenShapeKeys == ShapeKeys \cap DOMAIN args.kwargs

\* the keys of the one option form that is honoured
HonouredKeys ==
  IF "batch_input_shape" \in GivenShapeKeys THEN {"batch_input_shape"}
  ELSE IF "input_shape" \in GivenShapeKeys THEN {"input_shape"}
  ELSE IF "input_dim" \in GivenShapeKeys
       THEN {"input_dim", "input_length"} \cap GivenShapeKeys
  ELSE {}

\* the depth the caller asked for, on the encoder and on the decoder side
EncoderDepth == args.depth.val[1]
DecoderDepth == args.depth.val[Len(args.depth.val)]

Returned == pc = "done"
Failed == pc = "raised"

----------------------------------------------------------------------------
(* C1: in each builder, batch_input_shape=(None,T,F), input_shape=(T,F) and *)
(* input_dim=F with input_length=T, each given alone, resolve to the same   *)
(* shape (None,T,F); input_dim=F alone resolves to (None,None,F).           *)
C1_EquivalentFormsResolveAlike ==
  pc # "args" =>
    \A t \in Dims, f \in Dims :
      /\ ( \/ /\ GivenShapeKeys = {"batch_input_shape"}
              /\ args.kwargs["batch_input_shape"] = <<None, t, f>>
           \/ /\ GivenShapeKeys = {"input_shape"}
              /\ args.kwargs["input_shape"] = <<t, f>>
           \/ /\ GivenShapeKeys = {"input_dim", "input_length"}
              /\ args.kwargs["input_dim"] = f
              /\ args.kwargs["input_length"] = t )
         => shape = <<None, t, f>>
      /\ (GivenShapeKeys = {"input_dim"} /\ args.kwargs["input_dim"] = f)
         => shape = <<None, None, f>>

C1_Witness ==
  /\ builder = "AttentionSeq2Seq"
  /\ pc = "encoder"
  /\ GivenShapeKeys = {"input_dim", "input_length"}
  /\ args.kwargs["input_length"] = 2
  /\ args.kwargs["input_dim"] = 1
  /\ shape = <<None, 2, 1>>

(* C2: with several option forms present the shape comes from               *)
(* batch_input_shape, else from input_shape, else from input_dim (with      *)
(* input_length if present); the other forms' values play no part.          *)
C2_PrecedenceOfForms ==
  (pc # "args" /\ GivenShapeKeys # {}) =>
    /\ HonouredKeys = {"batch_input_shape"} =>
         shape = args.kwargs["batch_input_shape"]
    /\ HonouredKeys = {"input_shape"} =>
         /\ Len(shape) = 3
         /\ shape[1] = None
         /\ <<shape[2], shape[3]>> = args.kwargs["input_shape"]
    /\ HonouredKeys = {"input_dim", "input_length"} =>
         shape = <<None, args.kwargs["input_length"], args.kwargs["input_dim"]>>
    /\ HonouredKeys = {"input_dim"} =>
         shape = <<None, None, args.kwargs["input_dim"]>>

C2_Witness ==
  /\ builder = "SimpleSeq2Seq"
  /\ pc = "encoder"
  /\ GivenShapeKeys = ShapeKeys
  /\ args.kwargs["batch_input_shape"] = <<1, 2, 1>>
  /\ args.kwargs["input_shape"] = <<1, 2>>
  /\ args.kwargs["input_dim"] = 1
  /\ args.kwargs["input_length"] = 1
  /\ shape = <<1, 2, 1>>

(* C3: with none of batch_input_shape, input_shape and input_dim the call   *)
(* fails with a ConfigurationError, before any layer or container exists,   *)
(* and returns no model.                                                    *)
C3_MissingShapeIsConfigurationError ==
  ((Returned \/ Failed) /\ GivenShapeKeys \cap {"batch_input_shape", "input_shape",
                                                 "input_dim"} = {}) =>
    /\ raised = "ConfigurationError"
    /\ ~encoder.built
    /\ ~decoder.built
    /\ ~model.built

C3_Witness ==
  /\ builder = "Seq2Seq"
  /\ Failed
  /\ GivenShapeKeys = {"input_length"}
  /\ raised = "UnboundLocalError"
  /\ ~encoder.built

(* C4: Seq2Seq hands the decoder the second external input, the ground-truth *)
(* tensor of shape (batch, output_length, output_dim), exactly when          *)
(* teacher_force is true, and None otherwise, whatever broadcast_state is.   *)
C4_GroundTruthFollowsTeacherForce ==
  (builder = "Seq2Seq" /\ (Returned \/ Failed) /\ shape # Unbound) =>
    /\ decoder_call.called
    /\ decoder_call.ground_truth =
         IF args.teacher_force
         THEN Input(<<shape[1], args.output_length, args.output_dim>>)
         ELSE NoneT

C4_Witness ==
  /\ builder = "Seq2Seq"
  /\ Failed
  /\ raised = "IndexError"
  /\ args.broadcast_state
  /\ ~args.teacher_force
  /\ ~decoder_call.called
  /\ ~model.built

C6_SimpleEncoderStack ==
  (builder = "SimpleSeq2Seq" /\ encoder.built) =>
    LET layers == encoder.layers
    IN /\ CountKind(layers, {"LSTMCell"}) = EncoderDepth
       /\ CountKind(layers, {"Dropout"}) = EncoderDepth - 1
       /\ Len(layers) = 2 * EncoderDepth - 1
       /\ layers[1].kind = "LSTMCell"
       /\ \A i \in Positions(layers, {"Dropout"}) :
            /\ 1 < i /\ i < Len(layers)
            /\ layers[i - 1].kind = "LSTMCell"
            /\ layers[i + 1].kind = "LSTMCell"

C6_Witness ==
  /\ builder = "SimpleSeq2Seq"
  /\ Returned
  /\ args.depth = PairDepth(3, 1)
  /\ CountKind(encoder.layers, {"LSTMCell"}) = 3
  /\ CountKind(encoder.layers, {"Dropout"}) = 2

(* C7: in each builder a scalar depth N becomes the pair (N, N) and a pair   *)
(* (e, d) is kept, and the encoder is built with e cells, the decoder with d. *)
C7_DepthPair ==
  /\ pc # "args" =>
       depth = IF args.depth.type = "int"
               THEN <<args.depth.val[1], args.depth.val[1]>>
               ELSE args.depth.val
  /\ encoder.built => CountKind(Layers(encoder), CellKinds) = EncoderDepth
  /\ decoder.built => CountKind(Layers(decoder), CellKinds) = DecoderDepth

C7_Witness ==
  /\ builder = "AttentionSeq2Seq"
  /\ Returned
  /\ args.depth = PairDepth(2, 3)
  /\ depth = <<2, 3>>
  /\ CountKind(Layers(encoder), CellKinds) = 2
  /\ CountKind(Layers(decoder), CellKinds) = 3

(* C8: the decoder of AttentionSeq2Seq with decoder depth d holds exactly    *)
(* one attention cell, before every plain decoder cell, and d-1 plain        *)
(* decoder cells after it; the last cell has output dimension output_dim and *)
(* every earlier cell has output dimension hidden_dim.                       *)
C8_AttentionDecoderStack ==
  (builder = "AttentionSeq2Seq" /\ decoder.built) =>
    LET layers == decoder.layers
        att == Positions(layers, {"AttentionDecoderCell"})
        plain == Positions(layers, {"LSTMDecoderCell"})
        cells == Positions(layers, CellKinds)
    IN /\ Cardinality(att) = 1
       /\ cells = att \cup plain
       /\ \A a \in att, q \in plain : a < q
       /\ Cardinality(plain) = DecoderDepth - 1
       /\ \A i \in cells :
            layers[i].output_dim =
              IF \A j \in cells : j <= i THEN args.output_dim ELSE hidden_dim

C8_Witness ==
  /\ builder = "AttentionSeq2Seq"
  /\ Returned
  /\ DecoderDepth = 3
  /\ args.output_dim = 2
  /\ hidden_dim = 1
  /\ Len(decoder.layers) = 6
  /\ decoder.layers[2] = AttentionDecoderCell(1, 1)
  /\ decoder.layers[6].output_dim = 2

(* The options a cell constructor is expected to receive: the caller's       *)
(* mapping without the honoured shape keys and without unroll and stateful.  *)
ForwardedOptions ==
  [k \in (DOMAIN args.kwargs) \ (HonouredKeys \cup {"unroll", "stateful"}) |->
     args.kwargs[k]]

CellsForwardOptions(c) ==
  \A i \in Positions(Layers(c), CellKinds) : Layers(c)[i].kwargs = ForwardedOptions

(* C9: in each builder the honoured shape keys are gone from the options     *)
(* before the first cell is constructed, and every cell constructor receives *)
(* the remaining options, without unroll and stateful, unchanged.            *)
C9_EveryCellGetsTheOptions ==
  /\ encoder.built => CellsForwardOptions(encoder)
  /\ decoder.built => CellsForwardOptions(decoder)

(* C9 as amended: the same for every cell of SimpleSeq2Seq and Seq2Seq and   *)
(* for the encoder cells of AttentionSeq2Seq; the decoder cells of           *)
(* AttentionSeq2Seq are constructed without any of the options.              *)
C9_CellsGetTheOptions ==
  /\ pc # "args" =>
       /\ HonouredKeys \cap DOMAIN kwargs = {}
       /\ kwargs = ForwardedOptions
  /\ encoder.built => CellsForwardOptions(encoder)
  /\ decoder.built =>
       IF builder = "AttentionSeq2Seq"
       THEN \A i \in Positions(decoder.layers, CellKinds) :
              DOMAIN decoder.layers[i].kwargs = {}
       ELSE CellsForwardOptions(decoder)

C9_Witness ==
  /\ builder = "Seq2Seq"
  /\ Returned
  /\ DOMAIN args.kwargs = {"input_dim", "input_length", "input_shape", "unroll",
                           "activation"}
  /\ HonouredKeys = {"input_shape"}
  /\ DOMAIN decoder.layers[4].kwargs = {"input_dim", "input_length", "activation"}
  /\ DOMAIN encoder.layers[1].kwargs = {"input_dim", "input_length", "activation"}

(* C10: the decoder of SimpleSeq2Seq with decoder depth d holds d recurrent  *)
(* cells and d-1 dropout layers, none of them before the first cell: the     *)
(* layout of the encoder.                                                    *)
C10_SimpleDecoderLikeEncoder ==
  (builder = "SimpleSeq2Seq" /\ decoder.built) =>
    LET layers == decoder.layers
    IN /\ CountKind(layers, {"LSTMCell"}) = DecoderDepth
       /\ CountKind(layers, {"Dropout"}) = DecoderDepth - 1
       /\ layers[1].kind = "LSTMCell"

(* C10 as amended: the decoder holds d recurrent cells and d dropout layers; *)
(* a dropout layer stands before every cell, the first one included, and the *)
(* first dropout layer carries the batch input shape (batch, hidden_dim).    *)
C10_SimpleDecoderStack ==
  (builder = "SimpleSeq2Seq" /\ decoder.built) =>
    LET layers == decoder.layers
    IN /\ CountKind(layers, {"LSTMCell"}) = DecoderDepth
       /\ CountKind(layers, {"Dropout"}) = DecoderDepth
       /\ Len(layers) = 2 * DecoderDepth
       /\ \A i \in 1..Len(layers) :
            layers[i].kind = IF i % 2 = 1 THEN "Dropout" ELSE "LSTMCell"
       /\ layers[1].batch_input_shape = <<shape[1], hidden_dim>>

C10_Witness ==
  /\ builder = "SimpleSeq2Seq"
  /\ Returned
  /\ DecoderDepth = 2
  /\ Len(decoder.layers) = 4
  /\ decoder.layers[1].kind = "Dropout"
  /\ decoder.layers[2].kind = "LSTMCell"

====
